---- MODULE Spec2Model ----
(***************************************************************************)
(* Model of the `nats sub` command (src/nats/sub_command.go).              *)
(*                                                                         *)
(* subCmd.subscribe is the runner: it resolves the subject, opens the      *)
(* connection, registers the handler closure, flushes, checks the          *)
(* transport's last error and then blocks forever.  The handler closure is *)
(* invoked by the transport, possibly concurrently, once per message; each *)
(* invocation is a process of its own here, one statement per step.        *)
(* The closure captures the runner's locals i, mu, err and the receiver c. *)
(***************************************************************************)
EXTENDS Integers, Sequences, FiniteSets, TLC

(* ---- bounds ---- *)
MaxMsgs == 2

MsgIds == 1..MaxMsgs

(* ---- error values ---- *)
NoErr == "nil"
ErrSubjectRequired == "subject is required"
ErrConnect == "connect failed"
ErrSubscribe == "subscribe failed"
ErrFlush == "flush failed"
ErrAsync == "async connection error"
ErrRespond == "respond failed"

Running == "running"

(* ---- inputs ---- *)
NL == "\n"
EmptyStr == << >>
Subjects == {EmptyStr, <<"foo">>}
Queues == {EmptyStr, <<"work">>}
InboxSubjects == {<<"_INBOX", "a">>}

BadReply == <<"_INBOX", "r">>
JSReply == <<"$JS", "ACK", "ORDERS", "NEW", "1", "2", "3", "t">>

NoHeader == << >>
HeaderAB == <<[name |-> "A", vals |-> <<"1", "2">>], [name |-> "B", vals |-> <<"x">>]>>

(* The messages the transport may deliver: reply-to address (as its dot     *)
(* separated tokens), header fields and payload bytes.                      *)
Payloads ==
    { [Reply |-> EmptyStr, Header |-> NoHeader, Data |-> <<"h", "i">>],
      [Reply |-> BadReply, Header |-> HeaderAB, Data |-> <<"h", "i", NL>>],
      [Reply |-> JSReply,  Header |-> NoHeader, Data |-> <<"h", "i">>] }

(* a nil *jsm.MsgInfo *)
NilInfo == [ok |-> FALSE, Stream |-> "", Consumer |-> "", Delivered |-> "",
            StreamSeq |-> "", ConsumerSeq |-> ""]

NoMsg == [Subject |-> EmptyStr, Reply |-> EmptyStr, Header |-> NoHeader, Data |-> EmptyStr]

VARIABLES
    c,          \* the subCmd receiver: subject, queue, raw, jsAck, inbox
    argSubject, \* the subject argument as parsed from the command line
    pc,         \* the runner's position in subscribe
    ret,        \* the value subscribe returned, Running before it returns
    err,        \* the runner's local err, captured by the handler closure
    conn,       \* the connection: "none", "open", "closed"
    dials,      \* calls of newNatsConn
    closes,     \* calls of nc.Close
    subs,       \* subscriptions registered on the connection
    flushRes,   \* what nc.Flush() returned (the runner drops it)
    lastError,  \* the error the transport has recorded (nc.LastError())
    i,          \* the message counter
    mu,         \* the mutex: 0 when free, else the invocation holding it
    hpc,        \* position of each handler invocation
    msg,        \* the message each invocation was given
    info,       \* each invocation's local info (parsed metadata or nil)
    parsed,     \* the invocations that called jsm.ParseJSMsgMetadata
    hdefer,     \* each invocation's stack of deferred calls
    idx,        \* the value of i each invocation left after i += 1
    locked,     \* the invocations in the order they acquired the mutex
    out,        \* standard output, one entry per Printf/Println
    acks,       \* m.Respond calls made
    logs        \* log.Printf lines

vars == <<c, argSubject, pc, ret, err, conn, dials, closes, subs, flushRes,
          lastError, i, mu, hpc, msg, info, parsed, hdefer, idx, locked, out,
          acks, logs>>

runnerVars == <<c, pc, ret, conn, dials, closes, subs, flushRes>>
handlerVars == <<i, mu, hpc, msg, info, parsed, hdefer, idx, locked, out,
                 acks>>

Init ==
    /\ c \in [subject : Subjects, queue : Queues, raw : BOOLEAN,
              jsAck : BOOLEAN, inbox : BOOLEAN]
    /\ argSubject = c.subject
    /\ pc = "resolve"
    /\ ret = Running
    /\ err = NoErr
    /\ conn = "none"
    /\ dials = 0
    /\ closes = 0
    /\ subs = << >>
    /\ flushRes = NoErr
    /\ lastError = NoErr
    /\ i = 0
    /\ mu = 0
    /\ hpc = [m \in MsgIds |-> "idle"]
    /\ msg = [m \in MsgIds |-> NoMsg]
    /\ info = [m \in MsgIds |-> NilInfo]
    /\ parsed = {}
    /\ hdefer = [m \in MsgIds |-> << >>]
    /\ idx = [m \in MsgIds |-> 0]
    /\ locked = << >>
    /\ out = << >>
    /\ acks = << >>
    /\ logs = << >>

(***************************************************************************)
(* The runner: subCmd.subscribe                                            *)
(***************************************************************************)

(* a runner that generates an inbox whenever the flag is set *)
WantsInbox_FlagOnly(cmd) == cmd.inbox

(* line 54: no explicit subject and inbox mode asked for *)
WantsInbox(cmd) == cmd.subject = EmptyStr /\ cmd.inbox

(* a runner that never rejects an empty subject *)
SubjectMissing_Unchecked(cmd) == FALSE

(* line 56: the else-branch's test *)
SubjectMissing(cmd) == cmd.subject = EmptyStr

(* nats.NewInbox(): some fresh subject under the inbox prefix *)
NewInbox == InboxSubjects

(* lines 54-58 *)
ResolveSubject ==
    /\ pc = "resolve"
    /\ IF WantsInbox(c)
       THEN /\ \E s \in NewInbox : c' = [c EXCEPT !.subject = s]
            /\ pc' = "connect"
            /\ ret' = ret
       ELSE IF SubjectMissing(c)
       THEN /\ ret' = ErrSubjectRequired
            /\ pc' = "done"
            /\ c' = c
       ELSE /\ pc' = "connect"
            /\ UNCHANGED <<c, ret>>
    /\ UNCHANGED <<argSubject, err, conn, dials, closes, subs, flushRes,
                   lastError, logs>>
    /\ UNCHANGED handlerVars

(* lines 60-64: newNatsConn, the error return, and defer nc.Close() *)
Connect ==
    /\ pc = "connect"
    /\ dials' = dials + 1
    /\ \/ /\ conn' = "open"
          /\ err' = NoErr
          /\ pc' = "announce"
          /\ ret' = ret
       \/ /\ conn' = conn
          /\ err' = ErrConnect
          /\ ret' = ErrConnect
          /\ pc' = "done"
    /\ UNCHANGED <<c, argSubject, closes, subs, flushRes, lastError, logs>>
    /\ UNCHANGED handlerVars

(* lines 122-128: the "Subscribing on ..." log line *)
Announce ==
    /\ pc = "announce"
    /\ logs' = IF ~c.raw \/ c.inbox
               THEN Append(logs, [kind |-> "subscribing", subject |-> c.subject,
                                  ack |-> c.jsAck, cause |-> NoErr])
               ELSE logs
    /\ pc' = "subscribe"
    /\ UNCHANGED <<c, argSubject, ret, err, conn, dials, closes, subs,
                   flushRes, lastError>>
    /\ UNCHANGED handlerVars

(* lines 130-134: which call registers the handler *)
SubscriptionFor(cmd) ==
    IF cmd.queue # EmptyStr
    THEN [subject |-> cmd.subject, queue |-> cmd.queue, kind |-> "queue"]
    ELSE [subject |-> cmd.subject, queue |-> EmptyStr, kind |-> "plain"]

(* lines 130-134: nc.QueueSubscribe / nc.Subscribe; both return             *)
(* a subscription and an error, and the runner drops both results.          *)
Subscribe ==
    /\ pc = "subscribe"
    /\ \E res \in {NoErr, ErrSubscribe} :
          subs' = IF res = NoErr THEN Append(subs, SubscriptionFor(c)) ELSE subs
    /\ pc' = "flush"
    /\ UNCHANGED <<c, argSubject, ret, err, conn, dials, closes, flushRes,
                   lastError, logs>>
    /\ UNCHANGED handlerVars

(* line 135: nc.Flush() returns an error, which the runner drops *)
Flush ==
    /\ pc = "flush"
    /\ \E res \in {NoErr, ErrFlush} : flushRes' = res
    /\ pc' = "lasterr"
    /\ UNCHANGED <<c, argSubject, ret, err, conn, dials, closes, subs,
                   lastError, logs>>
    /\ UNCHANGED handlerVars

(* line 137: err = nc.LastError() *)
LastError ==
    /\ pc = "lasterr"
    /\ err' = lastError
    /\ pc' = "check"
    /\ UNCHANGED <<c, argSubject, ret, conn, dials, closes, subs, flushRes,
                   lastError, logs>>
    /\ UNCHANGED handlerVars

(* a runner without the defer of line 64: it returns leaving nc open *)
CheckLastError_NoClose ==
    /\ pc = "check"
    /\ IF err # NoErr
       THEN /\ ret' = err
            /\ pc' = "done"
            /\ UNCHANGED <<conn, closes>>
       ELSE /\ pc' = "wait"
            /\ UNCHANGED <<ret, conn, closes>>
    /\ UNCHANGED <<c, argSubject, err, dials, subs, flushRes, lastError, logs>>
    /\ UNCHANGED handlerVars

(* lines 138-140, with the deferred nc.Close() of line 64 on the return *)
CheckLastError ==
    /\ pc = "check"
    /\ IF err # NoErr
       THEN /\ ret' = err
            /\ conn' = "closed"
            /\ closes' = closes + 1
            /\ pc' = "done"
       ELSE /\ pc' = "wait"
            /\ UNCHANGED <<ret, conn, closes>>
    /\ UNCHANGED <<c, argSubject, err, dials, subs, flushRes, lastError, logs>>
    /\ UNCHANGED handlerVars

(* a runner waiting on a context that does get cancelled *)
BackgroundDone_Cancelled == TRUE

(* line 142: context.Background() is never cancelled, its Done() channel    *)
(* is nil and a receive from it never completes.                            *)
BackgroundDone == FALSE

(* lines 142-144: the receive, then return nil with the deferred Close *)
Block ==
    /\ pc = "wait"
    /\ IF BackgroundDone
       THEN /\ ret' = NoErr
            /\ conn' = "closed"
            /\ closes' = closes + 1
            /\ pc' = "done"
       ELSE UNCHANGED <<pc, ret, conn, closes>>
    /\ UNCHANGED <<c, argSubject, err, dials, subs, flushRes, lastError, logs>>
    /\ UNCHANGED handlerVars

(* The transport records an asynchronous connection-level error at some    *)
(* moment before line 137 reads it with nc.LastError(); the program never   *)
(* reads the recorded error again after that line.                          *)
AsyncError ==
    /\ conn = "open"
    /\ pc \in {"announce", "subscribe", "flush", "lasterr"}
    /\ lastError = NoErr
    /\ lastError' = ErrAsync
    /\ UNCHANGED <<c, argSubject, pc, ret, err, conn, dials, closes, subs,
                   flushRes, logs>>
    /\ UNCHANGED handlerVars

(***************************************************************************)
(* The handler closure, lines 69-120; m names one invocation.              *)
(***************************************************************************)

Push(stack, call) == Append(stack, call)
Top(stack) == stack[Len(stack)]
Pop(stack) == SubSeq(stack, 1, Len(stack) - 1)

(* The transport invokes the handler with a message received on the         *)
(* subscription; invocations are numbered in the order they start.          *)
Deliver(m) ==
    /\ hpc[m] = "idle"
    /\ \A k \in MsgIds : k < m => hpc[k] # "idle"
    /\ pc # "done"
    /\ conn = "open"
    /\ subs # << >>
    /\ \E p \in Payloads :
          msg' = [msg EXCEPT ![m] = [Subject |-> subs[1].subject, Reply |-> p.Reply,
                                     Header |-> p.Header, Data |-> p.Data]]
    /\ hpc' = [hpc EXCEPT ![m] = "lock"]
    /\ UNCHANGED <<i, mu, info, hdefer, idx, locked, out, acks, parsed>>
    /\ UNCHANGED <<argSubject, err, lastError, logs>>
    /\ UNCHANGED runnerVars

(* a handler whose Lock does not wait for the holder *)
CanLock_NoExclusion == TRUE

(* sync.Mutex: Lock returns only when no one holds the mutex *)
CanLock == mu = 0

(* lines 70-71: mu.Lock(); defer mu.Unlock() *)
HLock(m) ==
    /\ hpc[m] = "lock"
    /\ CanLock
    /\ mu' = m
    /\ locked' = Append(locked, m)
    /\ hdefer' = [hdefer EXCEPT ![m] = Push(@, "Unlock")]
    /\ hpc' = [hpc EXCEPT ![m] = "inc"]
    /\ UNCHANGED <<i, msg, info, idx, out, acks, parsed>>
    /\ UNCHANGED <<argSubject, err, lastError, logs>>
    /\ UNCHANGED runnerVars

(* a handler whose lock guards the counter only: released after i += 1 *)
HInc_ReleasesLock(m) ==
    /\ hpc[m] = "inc"
    /\ i' = i + 1
    /\ idx' = [idx EXCEPT ![m] = i + 1]
    /\ mu' = 0
    /\ hpc' = [hpc EXCEPT ![m] = "parse"]
    /\ UNCHANGED <<msg, info, hdefer, out, acks, locked, parsed>>
    /\ UNCHANGED <<argSubject, err, lastError, logs>>
    /\ UNCHANGED runnerVars

(* line 73: i += 1 *)
HInc(m) ==
    /\ hpc[m] = "inc"
    /\ i' = i + 1
    /\ idx' = [idx EXCEPT ![m] = i + 1]
    /\ hpc' = [hpc EXCEPT ![m] = "parse"]
    /\ UNCHANGED <<mu, msg, info, hdefer, out, acks, locked, parsed>>
    /\ UNCHANGED <<argSubject, err, lastError, logs>>
    /\ UNCHANGED runnerVars

(* a parser that takes any reply-to address for delivery metadata *)
ParseJSMsgMetadata_Lenient(message) == [NilInfo EXCEPT !.ok = TRUE]

(* jsm.ParseJSMsgMetadata: the reply subject of a JetStream delivery is     *)
(* $JS.ACK.<stream>.<consumer>.<delivered>.<stream seq>.<consumer seq>...   *)
ParseJSMsgMetadata(message) ==
    LET parts == message.Reply
    IN  IF Len(parts) \in {8, 9} /\ parts[1] = "$JS" /\ parts[2] = "ACK"
        THEN [ok |-> TRUE, Stream |-> parts[3], Consumer |-> parts[4],
              Delivered |-> parts[5], StreamSeq |-> parts[6],
              ConsumerSeq |-> parts[7]]
        ELSE NilInfo

(* lines 75-78 *)
HParse(m) ==
    /\ hpc[m] = "parse"
    /\ info' = [info EXCEPT ![m] = IF msg[m].Reply # EmptyStr
                                   THEN ParseJSMsgMetadata(msg[m])
                                   ELSE NilInfo]
    /\ parsed' = IF msg[m].Reply # EmptyStr THEN parsed \cup {m} ELSE parsed
    /\ hpc' = [hpc EXCEPT ![m] = "ackdefer"]
    /\ UNCHANGED <<i, mu, msg, hdefer, idx, locked, out, acks>>
    /\ UNCHANGED <<argSubject, err, lastError, logs>>
    /\ UNCHANGED runnerVars

(* a handler that acknowledges whatever carries a reply-to, parsed or not *)
WantsAck_FlagOnly(cmd, inf) == cmd.jsAck

(* line 80: the condition under which the acknowledgement is deferred *)
WantsAck(cmd, inf) == cmd.jsAck /\ inf.ok

(* lines 80-88: defer func() { err = m.Respond(nil) ... }() *)
HDeferAck(m) ==
    /\ hpc[m] = "ackdefer"
    /\ hdefer' = [hdefer EXCEPT ![m] = IF WantsAck(c, info[m])
                                       THEN Push(@, "Ack") ELSE @]
    /\ hpc' = [hpc EXCEPT ![m] = "raw"]
    /\ UNCHANGED <<i, mu, msg, info, idx, locked, out, acks, parsed>>
    /\ UNCHANGED <<argSubject, err, lastError, logs>>
    /\ UNCHANGED runnerVars

(* one write to standard output *)
Line(m, kind, index, text) == [m |-> m, kind |-> kind, idx |-> index, text |-> text]

(* a print that adds the newline only to data not already ending in one *)
Println_IfAbsent(data) ==
    IF Len(data) > 0 /\ data[Len(data)] = NL THEN data ELSE data \o <<NL>>

(* fmt.Println(string(data)): the operand, then a newline *)
Println(data) == data \o <<NL>>

(* a handler that acknowledges at the end of its body instead of in a      *)
(* deferred call: the early return of raw mode skips the acknowledgement   *)
HRaw_SkipsAck(m) ==
    /\ hpc[m] = "raw"
    /\ IF c.raw
       THEN /\ out' = Append(out, Line(m, "raw", 0, Println(msg[m].Data)))
            /\ hdefer' = [hdefer EXCEPT ![m] = <<"Unlock">>]
            /\ hpc' = [hpc EXCEPT ![m] = "return"]
       ELSE /\ out' = out
            /\ hdefer' = hdefer
            /\ hpc' = [hpc EXCEPT ![m] = "summary"]
    /\ UNCHANGED <<i, mu, msg, info, idx, locked, acks, parsed>>
    /\ UNCHANGED <<argSubject, err, lastError, logs>>
    /\ UNCHANGED runnerVars

(* a handler that unlocks at the end of its body instead of in a deferred  *)
(* call: the early return of raw mode leaves the mutex locked              *)
HRaw_KeepsLock(m) ==
    /\ hpc[m] = "raw"
    /\ IF c.raw
       THEN /\ out' = Append(out, Line(m, "raw", 0, Println(msg[m].Data)))
            /\ hdefer' = [hdefer EXCEPT ![m] = << >>]
            /\ hpc' = [hpc EXCEPT ![m] = "done"]
       ELSE /\ out' = out
            /\ hdefer' = hdefer
            /\ hpc' = [hpc EXCEPT ![m] = "summary"]
    /\ UNCHANGED <<i, mu, msg, info, idx, locked, acks, parsed>>
    /\ UNCHANGED <<argSubject, err, lastError, logs>>
    /\ UNCHANGED runnerVars

(* lines 90-93 *)
HRaw(m) ==
    /\ hpc[m] = "raw"
    /\ IF c.raw
       THEN /\ out' = Append(out, Line(m, "raw", 0, Println(msg[m].Data)))
            /\ hpc' = [hpc EXCEPT ![m] = "return"]
       ELSE /\ out' = out
            /\ hpc' = [hpc EXCEPT ![m] = "summary"]
    /\ UNCHANGED <<i, mu, msg, info, hdefer, idx, locked, acks, parsed>>
    /\ UNCHANGED <<argSubject, err, lastError, logs>>
    /\ UNCHANGED runnerVars

(* lines 95-104: which of the three summary lines is printed *)
SummaryKind(message, inf) ==
    IF ~inf.ok
    THEN IF message.Reply # EmptyStr THEN "reply" ELSE "plain"
    ELSE "js"

(* lines 95-104: the summary shows i as it is when the line is printed *)
HSummary(m) ==
    /\ hpc[m] = "summary"
    /\ out' = Append(out, Line(m, SummaryKind(msg[m], info[m]), i, << >>))
    /\ hpc' = [hpc EXCEPT ![m] = "headers"]
    /\ UNCHANGED <<i, mu, msg, info, hdefer, idx, locked, acks, parsed>>
    /\ UNCHANGED <<argSubject, err, lastError, logs>>
    /\ UNCHANGED runnerVars

(* line 107: range over a Go map visits the keys in an unspecified order *)
RangeOrders(h) ==
    {p \in [1..Len(h) -> 1..Len(h)] : \A a, b \in 1..Len(h) : p[a] = p[b] => a = b}

(* lines 108-110: one line per value of one header *)
ValueLines(m, name, vals) ==
    [k \in 1..Len(vals) |-> Line(m, "header", 0, <<name, ": ", vals[k], NL>>)]

RECURSIVE HeaderLines(_, _, _, _)
(* lines 107-111: the lines of the headers visited in the order p, from k on *)
HeaderLines(m, h, p, k) ==
    IF k > Len(h) THEN << >>
    ELSE ValueLines(m, h[p[k]].name, h[p[k]].vals) \o HeaderLines(m, h, p, k + 1)

(* lines 106-114 *)
HHeaders(m) ==
    /\ hpc[m] = "headers"
    /\ IF Len(msg[m].Header) > 0
       THEN \E p \in RangeOrders(msg[m].Header) :
               out' = out \o HeaderLines(m, msg[m].Header, p, 1)
                          \o <<Line(m, "blank", 0, <<NL>>)>>
       ELSE out' = out
    /\ hpc' = [hpc EXCEPT ![m] = "payload"]
    /\ UNCHANGED <<i, mu, msg, info, hdefer, idx, locked, acks, parsed>>
    /\ UNCHANGED <<argSubject, err, lastError, logs>>
    /\ UNCHANGED runnerVars

(* line 116 *)
HPayload(m) ==
    /\ hpc[m] = "payload"
    /\ out' = Append(out, Line(m, "payload", 0, Println(msg[m].Data)))
    /\ hpc' = [hpc EXCEPT ![m] = "suffix"]
    /\ UNCHANGED <<i, mu, msg, info, hdefer, idx, locked, acks, parsed>>
    /\ UNCHANGED <<argSubject, err, lastError, logs>>
    /\ UNCHANGED runnerVars

(* a suffix test that never finds the newline *)
HasSuffixNL_Never(s) == FALSE

(* strings.HasSuffix(s, "\n") *)
HasSuffixNL(s) == Len(s) > 0 /\ s[Len(s)] = NL

(* lines 117-119 *)
HSuffix(m) ==
    /\ hpc[m] = "suffix"
    /\ out' = IF ~HasSuffixNL(msg[m].Data)
              THEN Append(out, Line(m, "newline", 0, <<NL>>))
              ELSE out
    /\ hpc' = [hpc EXCEPT ![m] = "return"]
    /\ UNCHANGED <<i, mu, msg, info, hdefer, idx, locked, acks, parsed>>
    /\ UNCHANGED <<argSubject, err, lastError, logs>>
    /\ UNCHANGED runnerVars

(* m.Respond(nil): the publish of an empty payload to m.Reply succeeds or   *)
(* fails; on a closed connection it fails.                                  *)
RespondResults == IF conn = "closed" THEN {ErrRespond} ELSE {NoErr, ErrRespond}

(* lines 81-87, run on return: the deferred acknowledgement.  It assigns    *)
(* the runner's err, which the closure captured.                            *)
HRespond(m) ==
    /\ hpc[m] = "return"
    /\ hdefer[m] # << >>
    /\ Top(hdefer[m]) = "Ack"
    /\ \E res \in RespondResults :
          /\ err' = res
          /\ acks' = Append(acks, [m |-> m, to |-> msg[m].Reply, data |-> EmptyStr,
                                   res |-> res, shown |-> Len(out)])
          /\ logs' = IF res # NoErr
                     THEN Append(logs, [kind |-> "ackfailed", subject |-> msg[m].Reply,
                                        ack |-> c.jsAck, cause |-> res])
                     ELSE logs
    /\ hdefer' = [hdefer EXCEPT ![m] = Pop(@)]
    /\ UNCHANGED <<i, mu, hpc, msg, info, idx, locked, out, parsed>>
    /\ UNCHANGED <<argSubject, lastError>>
    /\ UNCHANGED runnerVars

(* a handler whose unlock runs before the deferred acknowledgement *)
HUnlock_BeforeAck(m) ==
    /\ hpc[m] = "return"
    /\ hdefer[m] # << >>
    /\ Head(hdefer[m]) = "Unlock"
    /\ mu' = 0
    /\ hdefer' = [hdefer EXCEPT ![m] = Tail(@)]
    /\ hpc' = [hpc EXCEPT ![m] = IF Len(hdefer[m]) = 1 THEN "done" ELSE "return"]
    /\ UNCHANGED <<i, msg, info, idx, locked, out, acks, parsed>>
    /\ UNCHANGED <<argSubject, err, lastError, logs>>
    /\ UNCHANGED runnerVars

(* line 71, run on return: the deferred mu.Unlock() *)
HUnlock(m) ==
    /\ hpc[m] = "return"
    /\ hdefer[m] # << >>
    /\ Top(hdefer[m]) = "Unlock"
    /\ mu' = 0
    /\ hdefer' = [hdefer EXCEPT ![m] = Pop(@)]
    /\ hpc' = [hpc EXCEPT ![m] = "done"]
    /\ UNCHANGED <<i, msg, info, idx, locked, out, acks, parsed>>
    /\ UNCHANGED <<argSubject, err, lastError, logs>>
    /\ UNCHANGED runnerVars

Runner ==
    \/ ResolveSubject
    \/ Connect
    \/ Announce
    \/ Subscribe
    \/ Flush
    \/ LastError
    \/ CheckLastError
    \/ Block

Handler(m) ==
    \/ Deliver(m)
    \/ HLock(m)
    \/ HInc(m)
    \/ HParse(m)
    \/ HDeferAck(m)
    \/ HRaw(m)
    \/ HSummary(m)
    \/ HHeaders(m)
    \/ HPayload(m)
    \/ HSuffix(m)
    \/ HRespond(m)
    \/ HUnlock(m)

Next ==
    \/ Runner
    \/ AsyncError
    \/ \E m \in MsgIds : Handler(m)

Spec == Init /\ [][Next]_vars

(* the steps of invocation m once the transport has started it *)
HandlerRun(m) ==
    \/ HLock(m)
    \/ HInc(m)
    \/ HParse(m)
    \/ HDeferAck(m)
    \/ HRaw(m)
    \/ HSummary(m)
    \/ HHeaders(m)
    \/ HPayload(m)
    \/ HSuffix(m)
    \/ HRespond(m)
    \/ HUnlock(m)

(* The handler reads only the raw and acknowledge flags of the request:    *)
(* what the handler prints and sends, and its progress, are checked for    *)
(* the runs with an explicit subject and neither queue nor inbox.          *)
HandlerInit ==
    /\ Init
    /\ c.subject # EmptyStr
    /\ c.queue = EmptyStr
    /\ ~c.inbox

HandlerSpec == HandlerInit /\ [][Next]_vars

(* The Go scheduler keeps running every goroutine that can take a step:    *)
(* an invocation that is not blocked in mu.Lock() goes on.                 *)
Fairness == \A m \in MsgIds : WF_vars(HandlerRun(m))

FairSpec == HandlerSpec /\ Fairness

(***************************************************************************)
(* Properties                                                              *)
(***************************************************************************)

(* positions of an invocation between mu.Lock() and the deferred Unlock *)
InCritical == {"inc", "parse", "ackdefer", "raw", "summary", "headers",
               "payload", "suffix", "return"}

(* invocations that have executed i += 1 *)
Indexed == {m \in MsgIds : hpc[m] \notin {"idle", "lock", "inc"}}

SummaryKinds == {"plain", "reply", "js"}

(* the place of invocation m in the order of lock acquisition *)
LockRank(m) == CHOOSE k \in 1..Len(locked) : locked[k] = m

C1_IndexState ==
    /\ i = Cardinality(Indexed)
    /\ {idx[m] : m \in Indexed} = 1..Cardinality(Indexed)
    /\ \A m, n \in Indexed : idx[m] = idx[n] => m = n
    /\ \A k \in 1..Len(locked) :
          locked[k] \in Indexed => idx[locked[k]] = k
    /\ \A k \in 1..Len(out) :
          out[k].kind \in SummaryKinds => out[k].idx = LockRank(out[k].m)

(* C1: the indices given to the messages handled so far are exactly 1..N,  *)
(* without duplicate or gap, the counter never decreases, and the k-th     *)
(* invocation to acquire the lock gets index k and shows k in its summary. *)
C1_IndicesAreLockOrder == [](C1_IndexState) /\ [][i' >= i]_vars

(* C1 witness: every invocation has finished, the last one started was the *)
(* first to take the lock, and the summaries were printed.                 *)
C1_Witness ==
    /\ \A m \in MsgIds : hpc[m] = "done"
    /\ locked[1] = MaxMsgs
    /\ ~c.raw
    /\ i = MaxMsgs

(* C2: at most one invocation is between Lock and Unlock, and the output   *)
(* entries of one message are contiguous: between two entries of the same  *)
(* message there is no entry of another (an entry of a message that has   *)
(* an earlier entry directly follows an entry of the same message).        *)
C2_OutputNotInterleaved ==
    /\ Cardinality({m \in MsgIds : hpc[m] \in InCritical}) <= 1
    /\ \A a, b \in 1..Len(out) :
          (a < b /\ out[a].m = out[b].m) => out[b - 1].m = out[a].m

(* C2 witness: an invocation waits for the lock while another, holding it, *)
(* is in the middle of a block with header lines, after an earlier block.  *)
C2_Witness ==
    \E m, n \in MsgIds :
       /\ m # n
       /\ hpc[m] = "lock"
       /\ mu = n
       /\ hpc[n] = "payload"
       /\ Len(msg[n].Header) > 0
       /\ Len(out) >= 4

(* C3: the runner never returns the error of a failed acknowledgement.     *)
C3_AckErrorNeverReturned == ret # ErrRespond

(* the Respond calls made for invocation m *)
AcksOf(m) == {k \in 1..Len(acks) : acks[k].m = m}

(* m's message is one the handler must acknowledge *)
MustAck(m) ==
    /\ c.jsAck
    /\ msg[m].Reply # EmptyStr
    /\ Len(msg[m].Reply) \in {8, 9}
    /\ msg[m].Reply[1] = "$JS"
    /\ msg[m].Reply[2] = "ACK"

(* C4: for a handled message the handler sends (calls m.Respond) exactly   *)
(* one empty response, to its reply-to address and after all of its        *)
(* display output, when acknowledgement mode is on and its non-empty       *)
(* reply-to parses as delivery metadata; otherwise it sends none.  A send  *)
(* the transport reports as failed counts as the one send.                 *)
C4_AckExactlyWhenDue ==
    /\ \A m \in MsgIds :
          /\ hpc[m] = "done" => Cardinality(AcksOf(m)) = (IF MustAck(m) THEN 1 ELSE 0)
          /\ ~MustAck(m) => AcksOf(m) = {}
          /\ Cardinality(AcksOf(m)) <= 1
    /\ \A k \in 1..Len(acks) :
          /\ acks[k].to = msg[acks[k].m].Reply
          /\ acks[k].data = EmptyStr
          /\ \A j \in 1..Len(out) : out[j].m = acks[k].m => j <= acks[k].shown
          /\ \E j \in 1..Len(out) : out[j].m = acks[k].m

(* C4 witness: in acknowledgement mode a metadata message and a message    *)
(* whose reply-to does not parse have both been handled and displayed.     *)
C4_Witness ==
    /\ c.jsAck
    /\ ~c.raw
    /\ \E m, n \in MsgIds :
          /\ hpc[m] = "done" /\ msg[m].Reply = JSReply
          /\ hpc[n] = "done" /\ msg[n].Reply = BadReply
          /\ Cardinality(AcksOf(m)) = 1
          /\ AcksOf(n) = {}

(* C5: with an empty subject and the inbox flag unset the runner returns   *)
(* the configuration error, and no connection is opened, no subscription   *)
(* registered and no handler invoked.                                      *)
C5_MissingSubjectFailsBeforeConnect ==
    (argSubject = EmptyStr /\ ~c.inbox) =>
        /\ pc \in {"resolve", "done"}
        /\ pc = "done" => ret = ErrSubjectRequired
        /\ dials = 0
        /\ conn = "none"
        /\ subs = << >>
        /\ \A m \in MsgIds : hpc[m] = "idle"

(* C5 witness: such a run has returned. *)
C5_Witness == argSubject = EmptyStr /\ ~c.inbox /\ pc = "done"

(* C6: a failed connect, a failed flush or an error the transport has      *)
(* recorded is returned; the runner never enters the wait with one.        *)
C6_SetupErrorsReturned ==
    /\ (pc = "done" /\ dials = 1 /\ conn = "none") => ret = ErrConnect
    /\ pc = "wait" => (flushRes = NoErr /\ lastError = NoErr)

(* C7: a waiting runner has exactly one subscription, on the resolved      *)
(* subject, a queue subscription exactly when the queue name is non-empty. *)
C7_OneSubscriptionWhenWaiting ==
    pc = "wait" =>
        /\ Len(subs) = 1
        /\ subs[1].subject = c.subject
        /\ subs[1].queue = c.queue
        /\ subs[1].kind = (IF c.queue # EmptyStr THEN "queue" ELSE "plain")

(* C8: the connection, once opened, is closed exactly once when the runner *)
(* returns, never before, and never on a path that opened none.            *)
C8_ClosedExactlyOnReturn ==
    /\ closes <= 1
    /\ (pc = "done" /\ conn # "none") => (closes = 1 /\ conn = "closed")
    /\ pc # "done" => (closes = 0 /\ conn # "closed")
    /\ (dials = 0 \/ ret \in {ErrSubjectRequired, ErrConnect}) =>
           (closes = 0 /\ conn = "none")

(* C8 witness: the runner has returned after opening a connection. *)
C8_Witness == pc = "done" /\ dials = 1 /\ ret = ErrAsync /\ closes = 1

(* C9: a waiting runner stays waiting and does not return, whatever the    *)
(* handlers do.                                                            *)
C9_WaitNeverReturns == [][pc = "wait" => (pc' = "wait" /\ ret' = Running)]_vars

(* C9 witness: the runner waits, all messages are handled and an           *)
(* acknowledgement has failed.                                             *)
C9_Witness ==
    /\ pc = "wait"
    /\ \A m \in MsgIds : hpc[m] = "done"
    /\ \E k \in 1..Len(acks) : acks[k].res = ErrRespond

(* C10: the subscribed subject is never empty; it is the explicit subject  *)
(* when one was given, inbox flag or not, and a generated inbox subject    *)
(* when none was given and the inbox flag is set.                          *)
C10_SubjectResolution ==
    \A k \in 1..Len(subs) :
       /\ subs[k].subject # EmptyStr
       /\ argSubject # EmptyStr => subs[k].subject = argSubject
       /\ argSubject = EmptyStr => (c.inbox /\ subs[k].subject \in InboxSubjects)

(* C10 witness: a subscription on the explicit subject with the inbox flag *)
(* set.                                                                    *)
C10_Witness == subs # << >> /\ argSubject # EmptyStr /\ c.inbox

(* the output entries of invocation m, in the order written *)
OutOf(m) == SelectSeq(out, LAMBDA e : e.m = m)

(* s ends with a line terminator *)
EndsWithNewline(s) == Len(s) > 0 /\ s[Len(s)] = NL

(* invocations that have returned *)
Finished == {m \in MsgIds : hpc[m] = "done"}

(* C11 as stated: in raw mode the output of a message is its payload, with *)
(* a newline added only if the payload does not end with one.              *)
C11_RawNewlineOnlyIfAbsent ==
    c.raw =>
       \A m \in Finished :
          /\ Len(OutOf(m)) = 1
          /\ OutOf(m)[1].text = (IF EndsWithNewline(msg[m].Data)
                                 THEN msg[m].Data
                                 ELSE msg[m].Data \o <<NL>>)

(* C11 amended: in raw mode the output of a message, whatever its headers, *)
(* reply-to or metadata, is one write of its payload followed by one       *)
(* newline, added whether or not the payload already ends with one; there  *)
(* is no summary, header or blank line.                                    *)
C11_RawPayloadThenNewline ==
    c.raw =>
       /\ \A k \in 1..Len(out) : out[k].kind = "raw" /\ out[k].idx = 0
       /\ \A m \in Finished :
             LET o == OutOf(m)
             IN  Len(o) = 1 /\ o[1].text = msg[m].Data \o <<NL>>

(* C11 witness: raw mode, a finished message with headers, a reply-to and  *)
(* a payload ending in a newline, and a finished metadata message.         *)
C11_Witness ==
    /\ c.raw
    /\ \E m, n \in Finished :
          /\ Len(msg[m].Header) > 0 /\ EndsWithNewline(msg[m].Data)
          /\ msg[n].Reply = JSReply

(* the header lines of h in its declared order, from field k on *)
RECURSIVE DeclaredHeaderText(_, _)
DeclaredHeaderText(h, k) ==
    IF k > Len(h) THEN << >>
    ELSE [v \in 1..Len(h[k].vals) |-> <<h[k].name, ": ", h[k].vals[v], NL>>]
         \o DeclaredHeaderText(h, k + 1)

(* the texts of the entries of kind in a sequence of output entries *)
TextsOf(entries, kind) ==
    LET sel == SelectSeq(entries, LAMBDA e : e.kind = kind)
    IN  [k \in 1..Len(sel) |-> sel[k].text]

(* C12: in non-raw mode the header lines of a message are one 'name: value' *)
(* line per value in the header's declared order, after the summary line    *)
(* and followed by one blank line before the payload; a message without     *)
(* header fields has neither header lines nor the blank line.               *)
C12_HeadersInDeclaredOrder ==
    ~c.raw =>
       \A m \in Finished :
          LET o == OutOf(m)
              n == Len(TextsOf(o, "header"))
          IN  /\ TextsOf(o, "header") = DeclaredHeaderText(msg[m].Header, 1)
              /\ o[1].kind \in SummaryKinds
              /\ \A k \in 2..(n + 1) : o[k].kind = "header"
              /\ IF Len(msg[m].Header) > 0
                 THEN o[n + 2].kind = "blank" /\ o[n + 3].kind = "payload"
                 ELSE n = 0 /\ o[2].kind = "payload"
              /\ Len(TextsOf(o, "blank")) = (IF Len(msg[m].Header) > 0 THEN 1 ELSE 0)

(* C13: whether a handled message is acknowledged is decided by the        *)
(* acknowledge flag and by whether its metadata parsed, and by nothing     *)
(* else: the display mode does not enter, so raw mode (which returns       *)
(* early) acknowledges exactly the messages non-raw mode acknowledges.     *)
C13_AckIndependentOfRaw ==
    \A m \in Finished : (AcksOf(m) # {}) <=> (c.jsAck /\ info[m].ok)

(* C13 witness: in raw mode a metadata message has been acknowledged and a *)
(* message without metadata has not.                                       *)
C13_Witness ==
    /\ c.raw
    /\ c.jsAck
    /\ \E m, n \in Finished :
          /\ info[m].ok /\ AcksOf(m) # {}
          /\ ~info[n].ok /\ AcksOf(n) = {}

(* a step that sends an acknowledgement, and the invocation sending it *)
AckSent == Len(acks') = Len(acks) + 1
AckSender == acks'[Len(acks')].m

(* C14: an acknowledgement is sent by an invocation that holds the lock    *)
(* and has not yet run its unlock, no other invocation being between lock  *)
(* and unlock; acknowledgements are sent in increasing order of the        *)
(* messages' indices.                                                      *)
C14_AckUnderLock ==
    /\ [][AckSent =>
            /\ mu = AckSender /\ mu' = AckSender
            /\ hpc[AckSender] = "return"
            /\ \E k \in 1..Len(hdefer'[AckSender]) : hdefer'[AckSender][k] = "Unlock"
            /\ \A n \in MsgIds \ {AckSender} : hpc[n] \notin InCritical]_vars
    /\ [](\A j, k \in 1..Len(acks) : j < k => idx[acks[j].m] < idx[acks[k].m])

(* C14 witness: two messages have been acknowledged, the one started last  *)
(* first.                                                                  *)
C14_Witness ==
    /\ Len(acks) = 2
    /\ acks[1].m > acks[2].m
    /\ Finished = MsgIds

(* m's message has a reply-to address that is not a JetStream ack subject *)
Unparsable(m) ==
    /\ msg[m].Reply # EmptyStr
    /\ ~(/\ Len(msg[m].Reply) \in {8, 9}
         /\ msg[m].Reply[1] = "$JS"
         /\ msg[m].Reply[2] = "ACK")

(* C15: metadata parsing is attempted exactly for the messages with a      *)
(* non-empty reply-to address; a message whose reply-to does not parse     *)
(* takes one index of its own, is shown with the plain "with reply"        *)
(* summary and never with the stream/consumer one, is never acknowledged,  *)
(* and leaves the lock free for the messages after it.                     *)
C15_ParseFailureNonFatal ==
    /\ \A m \in parsed : msg[m].Reply # EmptyStr
    /\ \A m \in MsgIds :
          (hpc[m] \notin {"idle", "lock", "inc", "parse"} /\ msg[m].Reply # EmptyStr)
             => m \in parsed
    /\ i = Cardinality(Indexed)
    /\ \A m \in MsgIds :
          Unparsable(m) =>
             /\ AcksOf(m) = {}
             /\ \A k \in 1..Len(out) : out[k].m = m => out[k].kind # "js"
             /\ m \in Finished =>
                   /\ idx[m] \in 1..i
                   /\ \A n \in Indexed \ {m} : idx[n] # idx[m]
                   /\ mu # m
                   /\ ~c.raw =>
                         LET o == OutOf(m)
                         IN  /\ o[1].kind = "reply"
                             /\ o[1].idx = idx[m]
                             /\ Len(SelectSeq(o, LAMBDA e : e.kind \in SummaryKinds)) = 1

(* C15 witness: in acknowledgement mode a message whose reply-to does not  *)
(* parse was handled first and a metadata message after it, both shown.    *)
C15_Witness ==
    /\ c.jsAck
    /\ ~c.raw
    /\ Finished = MsgIds
    /\ Unparsable(locked[1])
    /\ \E n \in MsgIds : idx[n] = 2 /\ msg[n].Reply = JSReply /\ AcksOf(n) # {}

(* the texts of a sequence of output entries, joined, from entry k on *)
RECURSIVE Joined(_, _)
Joined(entries, k) ==
    IF k > Len(entries) THEN << >>
    ELSE entries[k].text \o Joined(entries, k + 1)

(* what lines 116-119 wrote, in the entries o of one message *)
PayloadPart(o) ==
    Joined(SelectSeq(o, LAMBDA e : e.kind \in {"payload", "newline"}), 1)

(* the payload part is the last part of the entries o of one message *)
PayloadLast(o) ==
    \A j \in 1..(Len(o) - 1) :
       o[j].kind \in {"payload", "newline"} => o[j + 1].kind \in {"payload", "newline"}

(* C16 as stated: in non-raw mode the payload part, printed last, is the   *)
(* payload itself when it ends with a newline and the payload followed by  *)
(* exactly one newline otherwise.                                          *)
C16_NewlineOnlyIfAbsent ==
    ~c.raw =>
       \A m \in Finished :
          LET o == OutOf(m)
          IN  /\ PayloadLast(o)
              /\ PayloadPart(o) = (IF EndsWithNewline(msg[m].Data)
                                   THEN msg[m].Data
                                   ELSE msg[m].Data \o <<NL>>)

(* C16 amended: in non-raw mode the payload part, printed last, is the     *)
(* payload followed by one newline, and by a second newline if and only if *)
(* the payload does not itself end with one.                               *)
C16_PayloadThenBlankLine ==
    ~c.raw =>
       \A m \in Finished :
          LET o == OutOf(m)
          IN  /\ PayloadLast(o)
              /\ PayloadPart(o) = (IF EndsWithNewline(msg[m].Data)
                                   THEN msg[m].Data \o <<NL>>
                                   ELSE msg[m].Data \o <<NL, NL>>)

(* C16 witness: a payload ending in a newline and one not ending in one    *)
(* have both been printed in non-raw mode.                                 *)
C16_Witness ==
    /\ ~c.raw
    /\ \E m, n \in Finished :
          EndsWithNewline(msg[m].Data) /\ ~EndsWithNewline(msg[n].Data)

(* C17 as stated: no step changes any field of the request.                *)
C17_RequestNeverMutated == [][c' = c]_vars

(* C17 amended: the only change ever made to the request is the runner's   *)
(* resolution step storing the generated inbox subject in the subject      *)
(* field, when the subject is empty and the inbox flag set; the queue,     *)
(* raw, acknowledge and inbox fields never change, and no later runner     *)
(* step and no handler invocation changes any field.                       *)
C17_OnlySubjectResolved ==
    [][c' # c =>
         /\ pc = "resolve"
         /\ c.subject = EmptyStr
         /\ c.inbox
         /\ c'.subject # EmptyStr
         /\ c' = [c EXCEPT !.subject = c'.subject]
         /\ \A m \in MsgIds : hpc[m] = "idle"]_vars

(* C17 witness: the subject was generated, and the messages were handled   *)
(* with the request as resolved.                                           *)
C17_Witness ==
    /\ c.subject # argSubject
    /\ c.inbox
    /\ Finished = MsgIds
    /\ pc = "wait"

(* a step taken by a handler invocation: each one moves the invocation or  *)
(* runs one of its deferred calls                                          *)
HandlerStep == hpc' # hpc \/ hdefer' # hdefer

(* C18: besides the connection and the message counter, a handler          *)
(* invocation writes no variable that the runner's main path reads or      *)
(* writes: the request, the runner's err and its result are left alone by  *)
(* every handler step.                                                     *)
C18_HandlersLeaveRunnerLocals ==
    [][HandlerStep =>
         /\ err' = err
         /\ c' = c
         /\ ret' = ret
         /\ pc' = pc]_vars

(* C19: the mutex is held only by an invocation between its Lock and its   *)
(* deferred Unlock, so every invocation that returned has released it, on  *)
(* the raw, plain, metadata and acknowledgement paths alike; and every     *)
(* invocation the transport started eventually returns, its message        *)
(* indexed and displayed.                                                  *)
C19_LockReleasedAndProgress ==
    /\ [](\A m \in MsgIds :
             /\ mu = m => hpc[m] \in InCritical
             /\ hpc[m] \in InCritical => mu = m
             /\ hpc[m] = "done" => (hdefer[m] = << >> /\ idx[m] > 0 /\ Len(OutOf(m)) > 0))
    /\ \A m \in MsgIds : (hpc[m] = "lock") ~> (hpc[m] = "done")

(* C19 witness: in raw mode every invocation has returned and the mutex is *)
(* free, after one acknowledgement that succeeded and one that failed.     *)
C19_Witness ==
    /\ c.raw
    /\ Finished = MsgIds
    /\ mu = 0
    /\ \E j, k \in 1..Len(acks) : acks[j].res = NoErr /\ acks[k].res = ErrRespond

====
